---- MODULE Spec2Model ----
(***************************************************************************)
(* Model of cloudstorage's LocalDriver (src/src/cloudstorage/drivers/      *)
(* local.py): the file system it works on (directory entries, inodes,      *)
(* advisory flock locks), the path lock lock_local_file, and the driver    *)
(* operations create_container, get_container, delete_container,          *)
(* upload_blob, get_blob, get_blobs, download_blob, delete_blob, each      *)
(* split at its system calls so that concurrent callers interleave as      *)
(* processes do.                                                           *)
(***************************************************************************)
EXTENDS Integers, Sequences, FiniteSets, TLC

(***************************************************************************)
(* Bounds                                                                  *)
(***************************************************************************)
\* number of chunks the iterated source stream of an upload yields
MaxChunks == 2

\* calls the callers make in one run, all together
MaxCalls == 3

\* concurrent callers (threads or processes) of the driver
Procs == {"p1", "p2"}

(***************************************************************************)
(* Paths.  A path is the sequence of its components; the driver builds     *)
(* paths with os.path.join and string concatenation only, the kernel       *)
(* resolves "..".                                                          *)
(***************************************************************************)
\* LocalDriver.base_path (the `key` of the constructor)
base_path == <<"srv", "store">>

\* os.path.join(a, b) for a relative b
Join(a, b) == a \o b

\* path + ext: the extension is appended to the last component
AddExt(path, ext) == [path EXCEPT ![Len(path)] = @ \o ext]

\* os.path.dirname
dirname(path) == SubSeq(path, 1, Len(path) - 1)

RECURSIVE Walk(_, _)
\* the kernel's walk over the components: ".." steps to the parent, and
\* the parent of the root is the root
Walk(acc, rest) ==
    IF rest = <<>> THEN acc
    ELSE IF Head(rest) = ".."
         THEN Walk(IF acc = <<>> THEN <<>> ELSE dirname(acc), Tail(rest))
         ELSE Walk(Append(acc, Head(rest)), Tail(rest))

Resolve(path) == Walk(<<>>, path)

IsPrefix(a, b) == Len(a) <= Len(b) /\ SubSeq(b, 1, Len(a)) = a

\* b lies strictly inside directory a
StrictlyInside(a, b) == IsPrefix(a, b) /\ a # b

(***************************************************************************)
(* State                                                                   *)
(***************************************************************************)
VARIABLES
    fs,        \* directory tree: resolved path -> [kind, ino]
    inodes,    \* inode number -> [data, attrs, flock, by]
    pc,        \* per caller: the statement it is at
    call,      \* per caller: the operation it runs and its arguments
    fd,        \* per caller: the staging file it has open, [ino, off]
    lk,        \* per caller: inode of the lock file it holds a flock on
    ret,       \* per caller: what its last finished call returned or raised
    ncalls,    \* number of calls made so far, by all callers together
    now,       \* wall clock, in ticks of 1/TicksPerSec second
    tokens,    \* signed tokens handed out so far
    verdict    \* outcome of the last validate_signature

vars == <<fs, inodes, pc, call, fd, lk, ret, ncalls, now, tokens, verdict>>
fsVars == <<fs, inodes, pc, call, fd, lk, ret, ncalls>>
sigVars == <<now, tokens, verdict>>

Dir == [kind |-> "dir", ino |-> 0]
File(i) == [kind |-> "file", ino |-> i]

NoFd == [ino |-> 0, off |-> 0]
NoCall == [op |-> "none", at |-> "none"]
NoRet == [kind |-> "none"]

\* a chunk nobody wrote: the gap left by a write past the end of a file
Hole == <<"hole", 0>>

\* the bytes caller p uploads: the chunks its source stream yields
Payload(p) == [i \in 1 .. MaxChunks |-> <<p, i>>]

\* the meta_data option caller p passes to upload_blob
MetaOf(p) == [k \in {"owner"} |-> p]

(***************************************************************************)
(* File system primitives (the system calls the driver issues)             *)
(***************************************************************************)
Exists(f, path) == Resolve(path) \in DOMAIN f
isdir(f, path) == Exists(f, path) /\ f[Resolve(path)].kind = "dir"
isfile(f, path) == Exists(f, path) /\ f[Resolve(path)].kind = "file"

Prefixes(path) == {SubSeq(path, 1, n) : n \in 0 .. Len(path)}

\* some component of the path, the last one included, is a regular file
BlockedByFile(f, rpath) ==
    \E q \in Prefixes(rpath) : q \in DOMAIN f /\ f[q].kind = "file"

\* an os.makedirs that empties a directory that is already there
makedirs_Fresh(f, path) ==
    LET r == Resolve(path)
        kept == {q \in DOMAIN f : ~StrictlyInside(r, q)}
        new == {q \in Prefixes(r) : q \notin DOMAIN f}
    IN  IF BlockedByFile(f, r) THEN f
        ELSE [q \in kept \cup new |-> IF q \in DOMAIN f THEN f[q] ELSE Dir]

\* os.makedirs: creates the directory and every missing ancestor; fails
\* (OSError) without creating anything when a component is a regular file
\* or the directory exists
makedirs(f, path) ==
    LET r == Resolve(path)
        new == {q \in Prefixes(r) : q \notin DOMAIN f}
    IN  IF BlockedByFile(f, r) THEN f
        ELSE [q \in DOMAIN f \cup new |-> IF q \in DOMAIN f THEN f[q] ELSE Dir]

\* remove one directory entry
Unlink(f, path) == [q \in DOMAIN f \ {Resolve(path)} |-> f[q]]

\* shutil.rmtree: remove the directory and everything below it
rmtree(f, path) ==
    [q \in {x \in DOMAIN f : ~IsPrefix(Resolve(path), x)} |-> f[q]]

\* a rename that leaves an existing destination in place
Link_NoReplace(f, path, i) ==
    [q \in DOMAIN f \cup {Resolve(path)} |->
        IF q \in DOMAIN f THEN f[q] ELSE File(i)]

\* bind a directory entry to an inode
Link(f, path, i) ==
    [q \in DOMAIN f \cup {Resolve(path)} |->
        IF q = Resolve(path) THEN File(i) ELSE f[q]]

\* the smallest inode number not in use
FreeIno(ins) == CHOOSE i \in 1 .. (Cardinality(DOMAIN ins) + 1) :
                    i \notin DOMAIN ins

\* a file without extended attributes
NoAttrs == [k \in {} |-> ""]

NewInode(p) == [data |-> <<>>, attrs |-> NoAttrs, flock |-> "none", by |-> p]

\* inodes that a directory entry or an open descriptor still refers to
Referenced(f, fds, lks) ==
    {f[q].ino : q \in {x \in DOMAIN f : f[x].kind = "file"}}
        \cup {fds[p].ino : p \in Procs} \cup {lks[p] : p \in Procs}

\* the kernel frees an inode when its last link and descriptor are gone
Reclaim(ins, f, fds, lks) ==
    [i \in DOMAIN ins \cap Referenced(f, fds, lks) |-> ins[i]]

\* write(2) of one chunk at offset off (0-based); a write past the end
\* leaves a hole
WriteAt(data, off, chunk) ==
    [i \in 1 .. (IF off + 1 > Len(data) THEN off + 1 ELSE Len(data)) |->
        IF i = off + 1 THEN chunk
        ELSE IF i <= Len(data) THEN data[i] ELSE Hole]

(***************************************************************************)
(* Materialisation: what get_blob reads from the file system               *)
(***************************************************************************)
\* LocalDriver._check_path_accessible: only the Windows build hides the
\* ".<name>.xattr" sidecars; this model is the POSIX build (os.name != "nt")
is_windows == FALSE

_check_path_accessible(path) == TRUE

\* LocalDriver._get_file_path / the full_path of _make_blob
_get_file_path(c, b) == Join(Join(base_path, c), b)

\* LocalDriver._make_blob: stat, attributes and checksum of the file at
\* the blob's path.  The checksum is a digest of the bytes now in the file;
\* it is represented by those bytes (a collision-free digest).
_make_blob(f, ins, c, b) ==
    LET path == _get_file_path(c, b) IN
    IF ~_check_path_accessible(path) \/ ~Exists(f, path)
    THEN [kind |-> "raise", exc |-> "NotFoundError"]
    ELSE IF isdir(f, path)
    THEN [kind |-> "raise", exc |-> "IsADirectoryError"]
    ELSE LET node == ins[f[Resolve(path)].ino] IN
         [kind |-> "ok",
          blob |-> [name |-> b, checksum |-> node.data,
                    size |-> Len(node.data), attrs |-> node.attrs]]

(***************************************************************************)
(* Helpers of the actions                                                  *)
(***************************************************************************)
\* the path a call locks, and the lock file lock_local_file uses for it
TargetPath(cl) ==
    IF cl.op \in {"upload_blob", "delete_blob"}
    THEN _get_file_path(cl.container, cl.blob)
    ELSE Join(base_path, cl.container)

LockFile(cl) == AddExt(TargetPath(cl), ".lock")

\* an upload that writes the blob's file in place, without a staging file
TmpPath_InPlace(cl) == TargetPath(cl)

\* tmp_blob_path = f'{blob_path}.tmp'
TmpPath(cl) == AddExt(TargetPath(cl), ".tmp")

\* first statement inside the `with lock_local_file(...)` block of an op
BodyPc(op) ==
    CASE op = "upload_blob" -> "u_open"
      [] op = "delete_blob" -> "d_unlink"
      [] op = "delete_container" -> "rm_tree"
      [] op = "create_container" -> "c_mkdir"

\* first statement after the block
AfterPc(op) ==
    CASE op = "upload_blob" -> "u_rename"
      [] op = "delete_blob" -> "d_done"
      [] op = "delete_container" -> "rm_done"
      [] op = "create_container" -> "c_make"

Running(p) == pc[p] \notin {"idle", "returned", "raised", "killed"}

\* an exception leaves the call: an open staging file is closed by its
\* `with open(...)` block, the FileLock object stays alive with the
\* traceback (see Finalize)
Raise(p, exc) ==
    /\ pc' = [pc EXCEPT ![p] = "raised"]
    /\ ret' = [ret EXCEPT ![p] = [kind |-> "raise", exc |-> exc]]

Goto(p, label) ==
    /\ pc' = [pc EXCEPT ![p] = label]
    /\ ret' = ret

(***************************************************************************)
(* lock_local_file                                                         *)
(***************************************************************************)
\* a lock that is taken by creating the lock file: the attempt fails while
\* the file is there
Acquire_ByCreation(p) ==
    /\ pc[p] = "acquire"
    /\ LET lf == LockFile(call[p])
           i == FreeIno(inodes)
       IN  /\ isdir(fs, dirname(lf))
           /\ ~Exists(fs, lf)
           /\ fs' = Link(fs, lf, i)
           /\ inodes' = [j \in DOMAIN inodes \cup {i} |->
                           IF j = i THEN [NewInode(p) EXCEPT !.flock = p]
                           ELSE inodes[j]]
           /\ lk' = [lk EXCEPT ![p] = i]
           /\ Goto(p, BodyPc(call[p].op))
           /\ UNCHANGED <<call, fd>>
    /\ UNCHANGED <<ncalls, now, tokens, verdict>>

\* filelock.FileLock(path + ".lock").acquire(timeout=0.1), the attempt that
\* gets the lock: os.open(O_RDWR | O_CREAT | O_TRUNC) then
\* fcntl.flock(LOCK_EX | LOCK_NB) on the inode the name is bound to now
Acquire(p) ==
    /\ pc[p] = "acquire"
    /\ LET lf == LockFile(call[p])
           create_exc == IF call[p].op = "create_container"
                         THEN "CloudStorageError" ELSE "FileNotFoundError"
       IN
       IF ~isdir(fs, dirname(lf))
       THEN \* os.open fails: no such directory
            /\ Raise(p, create_exc)
            /\ UNCHANGED <<fs, inodes, call, fd, lk>>
       ELSE IF isdir(fs, lf)
       THEN /\ Raise(p, "IsADirectoryError")
            /\ UNCHANGED <<fs, inodes, call, fd, lk>>
       ELSE LET i == IF Exists(fs, lf) THEN fs[Resolve(lf)].ino
                     ELSE FreeIno(inodes)
                ins1 == IF Exists(fs, lf) THEN inodes
                        ELSE [j \in DOMAIN inodes \cup {i} |->
                                IF j = i THEN NewInode(p) ELSE inodes[j]]
            IN  /\ ins1[i].flock = "none"
                /\ fs' = Link(fs, lf, i)
                /\ inodes' = [ins1 EXCEPT ![i].flock = p]
                /\ lk' = [lk EXCEPT ![p] = i]
                /\ Goto(p, BodyPc(call[p].op))
                /\ UNCHANGED <<call, fd>>
    /\ UNCHANGED <<ncalls, now, tokens, verdict>>

\* a lock_local_file that enters the block when the timeout has run out
AcquireTimeout_Proceeds(p) ==
    /\ pc[p] = "acquire"
    /\ LET lf == LockFile(call[p]) IN
       /\ isfile(fs, lf)
       /\ inodes[fs[Resolve(lf)].ino].flock # "none"
    /\ Goto(p, BodyPc(call[p].op))
    /\ UNCHANGED <<fs, inodes, call, fd, lk>>
    /\ UNCHANGED <<ncalls, now, tokens, verdict>>

\* every attempt within the timeout found the lock held: filelock.Timeout,
\* raised to the caller as CloudStorageError("Lock timeout")
AcquireTimeout(p) ==
    /\ pc[p] = "acquire"
    /\ LET lf == LockFile(call[p]) IN
       /\ isfile(fs, lf)
       /\ inodes[fs[Resolve(lf)].ino].flock # "none"
    /\ Raise(p, "CloudStorageError")
    /\ UNCHANGED <<fs, inodes, call, fd, lk>>
    /\ UNCHANGED <<ncalls, now, tokens, verdict>>

\* after the yield: `if lock.is_locked: lock.release()` (LOCK_UN, close)
Release(p) ==
    /\ pc[p] = "release"
    /\ LET ins1 == IF lk[p] # 0 THEN [inodes EXCEPT ![lk[p]].flock = "none"]
                   ELSE inodes
           lk1 == [lk EXCEPT ![p] = 0]
       IN  /\ inodes' = Reclaim(ins1, fs, fd, lk1)
           /\ lk' = lk1
    /\ Goto(p, "exists")
    /\ UNCHANGED <<fs, call, fd>>
    /\ UNCHANGED <<ncalls, now, tokens, verdict>>

\* `if os.path.exists(lock.lock_file):`
LockExists(p) ==
    /\ pc[p] = "exists"
    /\ Goto(p, IF Exists(fs, LockFile(call[p])) THEN "remove"
               ELSE AfterPc(call[p].op))
    /\ UNCHANGED <<fs, inodes, call, fd, lk>>
    /\ UNCHANGED <<ncalls, now, tokens, verdict>>

\* `os.remove(lock.lock_file)`: unlinks whatever the name is bound to now
LockRemove(p) ==
    /\ pc[p] = "remove"
    /\ LET lf == LockFile(call[p]) IN
       IF ~isfile(fs, lf)
       THEN /\ Raise(p, IF Exists(fs, lf) THEN "IsADirectoryError"
                        ELSE "FileNotFoundError")
            /\ UNCHANGED <<fs, inodes>>
       ELSE /\ fs' = Unlink(fs, lf)
            /\ inodes' = Reclaim(inodes, Unlink(fs, lf), fd, lk)
            /\ Goto(p, AfterPc(call[p].op))
    /\ UNCHANGED <<call, fd, lk>>
    /\ UNCHANGED <<ncalls, now, tokens, verdict>>

\* filelock.FileLock.__del__ -> release(force=True): when the body of the
\* `with` block raised, nothing after the yield runs; the flock is dropped
\* when the lock object is collected, the lock file is left behind
Finalize(p) ==
    /\ pc[p] = "raised"
    /\ lk[p] # 0
    /\ LET ins1 == [inodes EXCEPT ![lk[p]].flock = "none"]
           lk1 == [lk EXCEPT ![p] = 0]
       IN  /\ inodes' = Reclaim(ins1, fs, fd, lk1)
           /\ lk' = lk1
    /\ UNCHANGED <<fs, pc, call, fd, ret>>
    /\ UNCHANGED <<ncalls, now, tokens, verdict>>

(***************************************************************************)
(* upload_blob                                                             *)
(***************************************************************************)
\* libmagic's MIME type of a file (helpers.file_content_type on a path
\* that is a regular file)
magic_from_file(data) ==
    IF data = <<>> THEN "inode/x-empty" ELSE "application/octet-stream"

\* the keys _set_file_attributes writes for the attributes of an upload:
\* "user.metadata.<key>" per meta_data entry, "user.content_type"; empty
\* values are skipped, attributes already on the file stay
SetAttrs(old, meta, ctype) ==
    LET metaKeys == {"user.metadata." \o k : k \in DOMAIN meta}
        keys == DOMAIN old \cup metaKeys \cup {"user.content_type"}
    IN  [a \in keys |->
            IF a = "user.content_type" THEN ctype
            ELSE IF a \in metaKeys
                 THEN meta[CHOOSE k \in DOMAIN meta : a = "user.metadata." \o k]
                 ELSE old[a]]

\* upload_blob up to `path = self._get_folder_path(container, validate=True)`
StartUpload(p, c, b) ==
    /\ pc[p] = "idle"
    /\ ncalls < MaxCalls
    /\ ncalls' = ncalls + 1
    /\ call' = [call EXCEPT ![p] =
                  [op |-> "upload_blob", container |-> c, blob |-> b,
                   pre |-> _make_blob(fs, inodes, c, b), at |-> "none"]]
    /\ IF isdir(fs, Join(base_path, c))
       THEN Goto(p, "u_mkdir")
       ELSE Raise(p, "NotFoundError")
    /\ UNCHANGED <<fs, inodes, fd, lk>>
    /\ UNCHANGED sigVars

\* `self._make_path(os.path.dirname(blob_path))`: OSError is swallowed
UploadMkdir(p) ==
    /\ pc[p] = "u_mkdir"
    /\ fs' = makedirs(fs, dirname(TargetPath(call[p])))
    /\ Goto(p, "acquire")
    /\ UNCHANGED <<inodes, call, fd, lk>>
    /\ UNCHANGED <<ncalls, now, tokens, verdict>>

\* `open(tmp_blob_path, "wb")` (shutil.copy opens its destination the same
\* way): creates the staging file or truncates the one that is there
UploadOpen(p) ==
    /\ pc[p] = "u_open"
    /\ LET tmp == TmpPath(call[p]) IN
       IF ~isdir(fs, dirname(tmp))
       THEN /\ Raise(p, "FileNotFoundError")
            /\ UNCHANGED <<fs, inodes, fd>>
       ELSE IF isdir(fs, tmp)
       THEN /\ Raise(p, "IsADirectoryError")
            /\ UNCHANGED <<fs, inodes, fd>>
       ELSE LET i == IF Exists(fs, tmp) THEN fs[Resolve(tmp)].ino
                     ELSE FreeIno(inodes)
            IN  /\ fs' = Link(fs, tmp, i)
                /\ inodes' = [j \in DOMAIN inodes \cup {i} |->
                                IF j # i THEN inodes[j]
                                ELSE IF i \in DOMAIN inodes
                                     THEN [inodes[i] EXCEPT !.data = <<>>]
                                     ELSE NewInode(p)]
                /\ fd' = [fd EXCEPT ![p] = [ino |-> i, off |-> 0]]
                /\ Goto(p, "u_write")
    /\ UNCHANGED <<call, lk>>
    /\ UNCHANGED <<ncalls, now, tokens, verdict>>

\* one round of `for data in filename: blob_file.write(data)`
UploadWrite(p) ==
    /\ pc[p] = "u_write"
    /\ fd[p].off < MaxChunks
    /\ inodes' = [inodes EXCEPT ![fd[p].ino].data =
                    WriteAt(@, fd[p].off, Payload(p)[fd[p].off + 1])]
    /\ fd' = [fd EXCEPT ![p].off = @ + 1]
    /\ UNCHANGED <<fs, pc, call, lk, ret>>
    /\ UNCHANGED <<ncalls, now, tokens, verdict>>

\* the source stream raises while it is iterated (or shutil.copy fails):
\* the exception leaves the `with` blocks, the staging file is closed
StreamError(p) ==
    /\ pc[p] = "u_write"
    /\ fd[p].off < MaxChunks
    /\ Raise(p, "IOError")
    /\ fd' = [fd EXCEPT ![p] = NoFd]
    /\ inodes' = Reclaim(inodes, fs, fd', lk)
    /\ UNCHANGED <<fs, call, lk>>
    /\ UNCHANGED <<ncalls, now, tokens, verdict>>

\* the stream is exhausted: os.fsync, the file is closed, the body of the
\* `with lock_local_file` block is left normally
UploadClose(p) ==
    /\ pc[p] = "u_write"
    /\ fd[p].off = MaxChunks
    /\ fd' = [fd EXCEPT ![p] = NoFd]
    /\ inodes' = Reclaim(inodes, fs, fd', lk)
    /\ Goto(p, "release")
    /\ UNCHANGED <<fs, call, lk>>
    /\ UNCHANGED <<ncalls, now, tokens, verdict>>

\* `os.rename(tmp_blob_path, blob_path)`, after the lock was given up
UploadRename(p) ==
    /\ pc[p] = "u_rename"
    /\ LET tmp == TmpPath(call[p])
           dst == TargetPath(call[p])
       IN
       IF ~isfile(fs, tmp)
       THEN /\ Raise(p, "FileNotFoundError")
            /\ UNCHANGED <<fs, inodes>>
       ELSE IF isdir(fs, dst)
       THEN /\ Raise(p, "IsADirectoryError")
            /\ UNCHANGED <<fs, inodes>>
       ELSE LET f1 == Unlink(Link(fs, dst, fs[Resolve(tmp)].ino), tmp) IN
            /\ fs' = f1
            /\ inodes' = Reclaim(inodes, f1, fd, lk)
            /\ Goto(p, "u_chmod")
    /\ UNCHANGED <<call, fd, lk>>
    /\ UNCHANGED <<ncalls, now, tokens, verdict>>

\* `os.chmod(blob_path, 0o664)`
UploadChmod(p) ==
    /\ pc[p] = "u_chmod"
    /\ IF Exists(fs, TargetPath(call[p]))
       THEN Goto(p, "u_attrs")
       ELSE Raise(p, "FileNotFoundError")
    /\ UNCHANGED <<fs, inodes, call, fd, lk>>
    /\ UNCHANGED <<ncalls, now, tokens, verdict>>

\* content type probing and `self._set_file_attributes(blob_path, ...)`:
\* the attributes go to the file the blob path names now; OSError (no such
\* file) is logged and swallowed
UploadAttrs(p) ==
    /\ pc[p] = "u_attrs"
    /\ LET dst == TargetPath(call[p]) IN
       IF isfile(fs, dst)
       THEN LET i == fs[Resolve(dst)].ino IN
            inodes' = [inodes EXCEPT ![i].attrs =
                         SetAttrs(@, MetaOf(p), magic_from_file(inodes[i].data))]
       ELSE inodes' = inodes
    /\ Goto(p, "u_get")
    /\ UNCHANGED <<fs, call, fd, lk>>
    /\ UNCHANGED <<ncalls, now, tokens, verdict>>

\* `return self.get_blob(container, blob_name)`
UploadReturn(p) ==
    /\ pc[p] = "u_get"
    /\ LET r == _make_blob(fs, inodes, call[p].container, call[p].blob) IN
       /\ pc' = [pc EXCEPT ![p] = IF r.kind = "ok" THEN "returned" ELSE "raised"]
       /\ ret' = [ret EXCEPT ![p] = r]
    /\ UNCHANGED <<fs, inodes, call, fd, lk>>
    /\ UNCHANGED <<ncalls, now, tokens, verdict>>

(***************************************************************************)
(* get_blob, get_blobs, delete_blob                                        *)
(***************************************************************************)
\* LocalDriver.get_blob: one read of the blob's file, status and attributes
GetBlob(p, c, b) ==
    /\ pc[p] = "idle"
    /\ ncalls < MaxCalls
    /\ ncalls' = ncalls + 1
    /\ LET r == _make_blob(fs, inodes, c, b) IN
       /\ pc' = [pc EXCEPT ![p] = IF r.kind = "ok" THEN "returned" ELSE "raised"]
       /\ ret' = [ret EXCEPT ![p] = r]
    /\ call' = [call EXCEPT ![p] = [op |-> "get_blob", container |-> c, blob |-> b, at |-> "none"]]
    /\ UNCHANGED <<fs, inodes, fd, lk>>
    /\ UNCHANGED sigVars

\* sub-folders os.walk does not descend into
IGNORE_FOLDERS == {".lock", ".hash", ".DS_STORE"}

\* regular files os.walk reaches below the container's folder
WalkedFiles(f, c) ==
    LET top == Resolve(Join(base_path, c)) IN
    {q \in DOMAIN f :
        /\ f[q].kind = "file"
        /\ StrictlyInside(top, q)
        /\ \A n \in (Len(top) + 1) .. (Len(q) - 1) : q[n] \notin IGNORE_FOLDERS}

\* LocalDriver.get_blobs up to its first item, which is all delete_container
\* consumes.  os.walk is top-down: the files of the folder itself come
\* before those of its sub-folders.  Every file is materialised under its
\* base name (`pathlib.Path(full_path).name`) in the container's folder.
get_blobs_first(f, ins, c) ==
    LET top == Resolve(Join(base_path, c))
        files == WalkedFiles(f, c)
        depth == {Len(q) : q \in files}
        first == {q \in files : \A d \in depth : Len(q) <= d}
    IN  IF ~isdir(f, Join(base_path, c))
        THEN {[kind |-> "raise", exc |-> "NotFoundError"]}
        ELSE IF files = {} THEN {[kind |-> "none"]}
        ELSE {_make_blob(f, ins, c, <<q[Len(q)]>>) : q \in first}

\* delete_blob: `path = self._get_file_path(blob)`, then the lock
StartDeleteBlob(p, c, b) ==
    /\ pc[p] = "idle"
    /\ ncalls < MaxCalls
    /\ ncalls' = ncalls + 1
    /\ call' = [call EXCEPT ![p] =
                  [op |-> "delete_blob", container |-> c, blob |-> b, at |-> "none"]]
    /\ Goto(p, "acquire")
    /\ UNCHANGED <<fs, inodes, fd, lk>>
    /\ UNCHANGED sigVars

\* `os.unlink(path)`; OSError is logged, not raised
DeleteUnlink(p) ==
    /\ pc[p] = "d_unlink"
    /\ LET path == TargetPath(call[p])
           f1 == IF isfile(fs, path) THEN Unlink(fs, path) ELSE fs
       IN  /\ fs' = f1
           /\ inodes' = Reclaim(inodes, f1, fd, lk)
    /\ Goto(p, "release")
    /\ UNCHANGED <<call, fd, lk>>
    /\ UNCHANGED <<ncalls, now, tokens, verdict>>

\* delete_blob returns (the sidecar removal is Windows only)
DeleteReturn(p) ==
    /\ pc[p] = "d_done"
    /\ pc' = [pc EXCEPT ![p] = "returned"]
    /\ ret' = [ret EXCEPT ![p] = [kind |-> "ok"]]
    /\ UNCHANGED <<fs, inodes, call, fd, lk>>
    /\ UNCHANGED <<ncalls, now, tokens, verdict>>

(***************************************************************************)
(* create_container, delete_container                                      *)
(***************************************************************************)
\* create_container up to the lock: the name check and the first _make_path
StartCreateContainer(p, c) ==
    /\ pc[p] = "idle"
    /\ ncalls < MaxCalls
    /\ ncalls' = ncalls + 1
    /\ call' = [call EXCEPT ![p] = [op |-> "create_container", container |-> c, at |-> "none"]]
    /\ IF ~_check_path_accessible(Join(base_path, c))
       THEN /\ Raise(p, "CloudStorageError")
            /\ fs' = fs
       ELSE /\ fs' = makedirs(fs, Join(base_path, c))
            /\ Goto(p, "acquire")
    /\ UNCHANGED <<inodes, fd, lk>>
    /\ UNCHANGED sigVars

\* the second `self._make_path(full_path, ignore_existing=True)`, locked
CreateMkdir(p) ==
    /\ pc[p] = "c_mkdir"
    /\ fs' = makedirs(fs, TargetPath(call[p]))
    /\ Goto(p, "release")
    /\ UNCHANGED <<inodes, call, fd, lk>>
    /\ UNCHANGED <<ncalls, now, tokens, verdict>>

\* `return self._make_container(container_name)`: os.stat of the path
CreateReturn(p) ==
    /\ pc[p] = "c_make"
    /\ IF Exists(fs, TargetPath(call[p]))
       THEN /\ pc' = [pc EXCEPT ![p] = "returned"]
            /\ ret' = [ret EXCEPT ![p] =
                         [kind |-> "ok", container |-> call[p].container]]
       ELSE Raise(p, "NotFoundError")
    /\ UNCHANGED <<fs, inodes, call, fd, lk>>
    /\ UNCHANGED <<ncalls, now, tokens, verdict>>

\* delete_container up to the lock: the emptiness check over get_blobs and
\* `self._get_folder_path(container, validate=True)`
StartDeleteContainer(p, c) ==
    /\ pc[p] = "idle"
    /\ ncalls < MaxCalls
    /\ ncalls' = ncalls + 1
    /\ call' = [call EXCEPT ![p] = [op |-> "delete_container", container |-> c, at |-> "none"]]
    /\ \E item \in get_blobs_first(fs, inodes, c) :
          IF item.kind = "raise" THEN Raise(p, item.exc)
          ELSE IF item.kind = "ok" THEN Raise(p, "IsNotEmptyError")
          ELSE Goto(p, "acquire")
    /\ UNCHANGED <<fs, inodes, fd, lk>>
    /\ UNCHANGED sigVars

\* `shutil.rmtree(path)`
DeleteRmtree(p) ==
    /\ pc[p] = "rm_tree"
    /\ LET path == TargetPath(call[p]) IN
       IF ~isdir(fs, path)
       THEN /\ Raise(p, IF Exists(fs, path) THEN "NotADirectoryError"
                        ELSE "FileNotFoundError")
            /\ UNCHANGED <<fs, inodes>>
       ELSE /\ fs' = rmtree(fs, path)
            /\ inodes' = Reclaim(inodes, rmtree(fs, path), fd, lk)
            /\ Goto(p, "release")
    /\ UNCHANGED <<call, fd, lk>>
    /\ UNCHANGED <<ncalls, now, tokens, verdict>>

DeleteContainerReturn(p) ==
    /\ pc[p] = "rm_done"
    /\ pc' = [pc EXCEPT ![p] = "returned"]
    /\ ret' = [ret EXCEPT ![p] = [kind |-> "ok"]]
    /\ UNCHANGED <<fs, inodes, call, fd, lk>>
    /\ UNCHANGED <<ncalls, now, tokens, verdict>>

(***************************************************************************)
(* The callers                                                             *)
(***************************************************************************)
\* SIGKILL of a caller in the middle of a call: the kernel closes its
\* descriptors, which drops its flock; the files it made stay
Kill(p) ==
    /\ Running(p)
    /\ pc' = [pc EXCEPT ![p] = "killed"]
    /\ fd' = [fd EXCEPT ![p] = NoFd]
    /\ lk' = [lk EXCEPT ![p] = 0]
    /\ inodes' = Reclaim([i \in DOMAIN inodes |->
                            IF inodes[i].flock = p
                            THEN [inodes[i] EXCEPT !.flock = "none"]
                            ELSE inodes[i]],
                         fs, fd', lk')
    /\ call' = [call EXCEPT ![p] = [@ EXCEPT !.at = pc[p]]]
    /\ UNCHANGED <<fs, ret>>
    /\ UNCHANGED <<ncalls, now, tokens, verdict>>

\* the caller is done with the result of its call and may call again
Again(p) ==
    /\ pc[p] \in {"returned", "raised"}
    /\ lk[p] = 0
    /\ pc' = [pc EXCEPT ![p] = "idle"]
    /\ call' = [call EXCEPT ![p] = NoCall]
    /\ ret' = [ret EXCEPT ![p] = NoRet]
    /\ UNCHANGED <<fs, inodes, fd, lk>>
    /\ UNCHANGED <<ncalls, now, tokens, verdict>>

(***************************************************************************)
(* Initial states and specifications                                       *)
(***************************************************************************)
\* the container and the blob names the callers use
C == <<"c">>
A == <<"a">>
Nested == <<"some", "a">>

\* LocalDriver.__init__: the base path exists and is a directory
FsAfterInit == [q \in Prefixes(base_path) |-> Dir]

\* ... and create_container("c") has returned
FsWithContainer == makedirs(FsAfterInit, Join(base_path, C))

\* ... and an earlier caller p0 has uploaded blob "a" and got it back
OldInode == [data |-> Payload("p0"),
             attrs |-> SetAttrs(NoAttrs, MetaOf("p0"),
                                magic_from_file(Payload("p0"))),
             flock |-> "none", by |-> "p0"]

FsWithBlob == Link(FsWithContainer, _get_file_path(C, A), 1)

InitCallers ==
    /\ pc = [p \in Procs |-> "idle"]
    /\ call = [p \in Procs |-> NoCall]
    /\ fd = [p \in Procs |-> NoFd]
    /\ lk = [p \in Procs |-> 0]
    /\ ret = [p \in Procs |-> NoRet]
    /\ ncalls = 0

InitSig ==
    /\ now = 0
    /\ tokens = {}
    /\ verdict = [kind |-> "none"]

\* the steps of a call in progress, whatever the operation
Step(p) ==
    \/ Acquire(p)
    \/ AcquireTimeout(p)
    \/ Release(p)
    \/ LockExists(p)
    \/ LockRemove(p)
    \/ Finalize(p)
    \/ UploadMkdir(p)
    \/ UploadOpen(p)
    \/ UploadWrite(p)
    \/ StreamError(p)
    \/ UploadClose(p)
    \/ UploadRename(p)
    \/ UploadChmod(p)
    \/ UploadAttrs(p)
    \/ UploadReturn(p)
    \/ Again(p)

\* Concurrent callers that upload, read and overwrite one blob of an
\* existing container; a caller may be killed at any statement.
Init ==
    /\ \/ fs = FsWithContainer /\ inodes = [i \in {} |-> OldInode]
       \/ fs = FsWithBlob /\ inodes = [i \in {1} |-> OldInode]
    /\ InitCallers
    /\ InitSig

Next ==
    \E p \in Procs :
        \/ StartUpload(p, C, A)
        \/ GetBlob(p, C, A)
        \/ Step(p)
        \/ Kill(p)

Spec == Init /\ [][Next]_vars

\* The same callers when no two calls overlap: a call starts only while
\* no other caller is inside one.
Alone(p) == \A q \in Procs \ {p} : ~Running(q)

NextSeq ==
    \E p \in Procs :
        \/ StartUpload(p, C, A) /\ Alone(p)
        \/ GetBlob(p, C, A) /\ Alone(p)
        \/ Step(p)
        \/ Kill(p)

SpecSeq == Init /\ [][NextSeq]_vars

\* the steps of the container operations and of delete_blob
DriverStep(p) ==
    \/ DeleteUnlink(p)
    \/ DeleteReturn(p)
    \/ CreateMkdir(p)
    \/ CreateReturn(p)
    \/ DeleteRmtree(p)
    \/ DeleteContainerReturn(p)

\* a container name that leaves the base path
Traversal == <<"..", "..", "etc">>

ContainerNames == {C, Traversal}
BlobNames == {A, Nested}

\* ... and an earlier caller p0 has uploaded blob "some/a" instead
FsWithNested ==
    Link(makedirs(FsWithContainer, dirname(_get_file_path(C, Nested))),
         _get_file_path(C, Nested), 1)

\* Callers that create and delete containers and upload and delete blobs
\* of container "c", flat and nested names, one call at a time, starting
\* from a fresh base path or from a container left by earlier calls.
InitDriver ==
    /\ \/ fs = FsAfterInit /\ inodes = [i \in {} |-> OldInode]
       \/ fs = FsWithBlob /\ inodes = [i \in {1} |-> OldInode]
       \/ fs = FsWithNested /\ inodes = [i \in {1} |-> OldInode]
    /\ InitCallers
    /\ InitSig

NextDriver ==
    \E p \in Procs :
        \/ \E c \in ContainerNames : StartCreateContainer(p, c) /\ Alone(p)
        \/ StartDeleteContainer(p, C) /\ Alone(p)
        \/ \E b \in BlobNames : StartUpload(p, C, b) /\ Alone(p)
        \/ \E b \in BlobNames : StartDeleteBlob(p, C, b) /\ Alone(p)
        \/ Step(p)
        \/ DriverStep(p)
        \/ Kill(p)

SpecDriver == InitDriver /\ [][NextDriver]_vars

(***************************************************************************)
(* Signed tokens: generate_blob_download_url,                              *)
(* generate_container_upload_url, validate_signature over                  *)
(* itsdangerous.URLSafeTimedSerializer (_make_serializer)                  *)
(***************************************************************************)
\* resolution of the wall clock of the model
TicksPerSec == 2

\* how long the clock runs
MaxTicks == 6

\* tokens handed out in one run
MaxTokens == 1

\* the `expires` arguments callers pass, in seconds
Expiries == {-1, 0, 1}

\* the driver's signing secret and salt
secret == "key"
salt == "salt"

\* TimestampSigner.get_timestamp: int(time.time()), whole seconds
get_timestamp(t) == t \div TicksPerSec

\* dict.update
Update(a, b) ==
    [k \in DOMAIN a \cup DOMAIN b |-> IF k \in DOMAIN b THEN b[k] ELSE a[k]]

NoExtra == [k \in {} |-> 0]

\* the `extra` arguments callers pass
Extras == {NoExtra, [max_age |-> 2]}

\* the HMAC-SHA1 of payload and timestamp under the key derived from
\* secret and salt, represented by its arguments (collision-free)
Mac(key, slt, payload, ts) == <<key, slt, payload, ts>>

\* the signature segment of a token is the URL-safe base64 text of the
\* 20-byte MAC: 27 characters, of which the last carries 4 bits of the MAC
\* and 2 low bits that the encoder leaves 0
base64_encode(mac) == [mac |-> mac, low |-> 0]

\* base64.urlsafe_b64decode drops the 2 low bits of the last character
base64_decode(seg) == seg.mac

\* URLSafeTimedSerializer.dumps at clock reading t
dumps(payload, t) ==
    [payload |-> payload,
     ts |-> get_timestamp(t),
     sig |-> base64_encode(Mac(secret, salt, payload, get_timestamp(t)))]

\* URLSafeTimedSerializer.loads(token, max_age) at clock reading t; aged
\* is FALSE for max_age=None.  The signature is verified on the decoded
\* segment before the age is looked at.
loads(tok, aged, max_age, t) ==
    IF base64_decode(tok.sig) # Mac(secret, salt, tok.payload, tok.ts)
    THEN [kind |-> "raise", exc |-> "BadSignature"]
    ELSE IF aged /\ get_timestamp(t) - tok.ts > max_age
    THEN [kind |-> "raise", exc |-> "SignatureExpired"]
    ELSE [kind |-> "ok", payload |-> tok.payload]

\* a version of validate_signature with both loads inside the `try` and
\* `except itsdangerous.BadSignature`, the base class of SignatureExpired
validate_signature_Conflating(tok, t) ==
    LET first == loads(tok, FALSE, 0, t) IN
    IF first.kind = "raise"
    THEN [kind |-> "raise", exc |-> "SignatureExpiredError"]
    ELSE LET second == loads(tok, TRUE, first.payload["max_age"], t) IN
         IF second.kind = "raise"
         THEN [kind |-> "raise", exc |-> "SignatureExpiredError"]
         ELSE second

\* LocalDriver.validate_signature at clock reading t
validate_signature(tok, t) ==
    LET first == loads(tok, FALSE, 0, t) IN
    IF first.kind = "raise" THEN first
    ELSE LET max_age == IF "max_age" \in DOMAIN first.payload
                        THEN first.payload["max_age"] ELSE 0
             second == loads(tok, TRUE, max_age, t)
         IN  IF second.kind = "raise" /\ second.exc = "SignatureExpired"
             THEN [kind |-> "raise", exc |-> "SignatureExpiredError"]
             ELSE second

\* `datetime.utcnow() + timedelta(seconds=expires)` as a timestamp, in
\* ticks (on a host whose local time is UTC)
expires_at(t, expires) == t + expires * TicksPerSec

\* generate_blob_download_url(blob, expires, extra=extra) for blob "a"
generate_blob_download_url(expires, extra) ==
    /\ Cardinality(tokens) < MaxTokens
    /\ LET payload ==
             Update([max_age |-> expires,
                     expires |-> expires_at(now, expires),
                     blob_name |-> A,
                     container |-> C,
                     method |-> "GET",
                     content_disposition |-> "None"], extra)
       IN  tokens' = tokens \cup
              {[tok |-> dumps(payload, now), issued |-> now,
                expires |-> expires, extra |-> extra, for |-> "download"]}
    /\ UNCHANGED <<now, verdict>>
    /\ UNCHANGED fsVars

\* generate_container_upload_url(container, "a", expires, extra=extra);
\* the token is the "signature" entry of the returned fields
generate_container_upload_url(expires, extra) ==
    /\ Cardinality(tokens) < MaxTokens
    /\ LET fields == [blob_name |-> A, container |-> C,
                      expires |-> expires_at(now, expires)]
           payload ==
             Update(Update([acl |-> "None",
                            meta_data |-> NoAttrs,
                            content_disposition |-> "None",
                            content_length |-> "None",
                            content_type |-> "None",
                            cache_control |-> "None",
                            max_age |-> expires], fields), extra)
       IN  tokens' = tokens \cup
              {[tok |-> dumps(payload, now), issued |-> now,
                expires |-> expires, extra |-> extra, for |-> "upload"]}
    /\ UNCHANGED <<now, verdict>>
    /\ UNCHANGED fsVars

\* the ways a token is presented: as issued, with a signature segment that
\* decodes to another MAC, with a signature segment that differs in the low
\* bits of its last character, or with another max_age in its payload
Presented(tok, how) ==
    CASE how = "genuine" -> tok
      [] how = "sig_mac" -> [tok EXCEPT !.sig.mac =
                                Mac("guess", salt, tok.payload, tok.ts)]
      [] how = "sig_low" -> [tok EXCEPT !.sig.low = 1]
      [] how = "payload" -> [tok EXCEPT !.payload =
                                Update(@, [max_age |-> MaxTicks])]

Presentations == {"genuine", "sig_mac", "sig_low", "payload"}

\* a bearer presents a token to validate_signature
ValidateSignature(issue, how) ==
    /\ issue \in tokens
    /\ verdict' = [kind |-> "checked", issue |-> issue, how |-> how,
                   at |-> now,
                   result |-> validate_signature(Presented(issue.tok, how), now)]
    /\ UNCHANGED <<now, tokens>>
    /\ UNCHANGED fsVars

\* time passes
Tick ==
    /\ now < MaxTicks
    /\ now' = now + 1
    /\ UNCHANGED <<tokens, verdict>>
    /\ UNCHANGED fsVars

\* A driver over a base path with blob "a" in container "c" that hands
\* out tokens and validates the tokens presented to it, while time passes.
InitSigned ==
    /\ fs = FsWithBlob /\ inodes = [i \in {1} |-> OldInode]
    /\ InitCallers
    /\ InitSig

NextSigned ==
    \/ \E e \in Expiries, x \in Extras : generate_blob_download_url(e, x)
    \/ \E e \in Expiries, x \in Extras : generate_container_upload_url(e, x)
    \/ \E issue \in tokens, how \in Presentations : ValidateSignature(issue, how)
    \/ Tick

SpecSigned == InitSigned /\ [][NextSigned]_vars

(***************************************************************************)
(* Properties                                                              *)
(***************************************************************************)
\* what a reader of the canonical blob name gets in the current state
Canon == _make_blob(fs, inodes, C, A)

\* the contents an upload commits as a whole
CompleteContents == {Payload(q) : q \in Procs \cup {"p0"}}

Finished(p) == pc[p] \in {"returned", "raised"}

\* statements of upload_blob before its os.rename has happened
BeforeRename ==
    {"u_mkdir", "acquire", "u_open", "u_write", "release", "exists",
     "remove", "u_rename"}

\* statements of upload_blob from the opening of the staging file up to
\* its rename
Staging == {"u_write", "release", "exists", "remove", "u_rename"}

\* C1: a reader of the canonical blob name (get_blob) gets NotFound, the
\* complete previous content or the complete payload of one upload, never
\* a partially written blob.
C1_ReadersSeeWholeBlobs ==
    \A p \in Procs :
        (call[p].op = "get_blob" /\ pc[p] = "returned")
            => ret[p].blob.checksum \in CompleteContents

\* C2: once two uploads to the same blob name have both finished, the
\* canonical blob holds one full payload, never a mix or a truncated part;
\* and it holds one of the two payloads if one of the two calls returned.
C2_FinalContentIsOnePayload ==
    (\A p \in Procs : call[p].op = "upload_blob" /\ Finished(p))
        => /\ Canon.kind = "ok" => Canon.blob.checksum \in CompleteContents
           /\ (\E p \in Procs : pc[p] = "returned")
                 => /\ Canon.kind = "ok"
                    /\ Canon.blob.checksum \in {Payload(p) : p \in Procs}

\* C3: uploads to the same path are serialized by the path lock: no
\* upload is between the opening of its staging file and its rename while
\* another upload is.
C3_StagingAndRenameSerialized ==
    \A p, q \in Procs :
        (p # q /\ call[p].op = "upload_blob" /\ call[q].op = "upload_blob")
            => ~(pc[p] \in Staging /\ pc[q] \in Staging)

C7_LockFileRemovedOnEveryExit ==
    \A p \in Procs :
        (Finished(p) /\ call[p].op \in {"upload_blob", "delete_blob",
                                       "delete_container", "create_container"})
            => /\ lk[p] = 0
               /\ ~(/\ isfile(fs, LockFile(call[p]))
                    /\ inodes[fs[Resolve(LockFile(call[p]))].ino].by = p)

\* C8: an upload that raised left the canonical blob as it was: the blob
\* is what it was when the call started, or what another caller's upload
\* committed as a whole; it never holds what the failed call wrote.
C8_FailedUploadChangesNothing ==
    \A p \in Procs :
        (pc[p] = "raised" /\ call[p].op = "upload_blob")
            => \/ Canon = call[p].pre
               \/ /\ Canon.kind = "ok"
                  /\ Canon.blob.checksum \in CompleteContents \ {Payload(p)}

\* the container's folder holds a committed blob
HoldsBlob(f) == \E b \in BlobNames : isfile(f, _get_file_path(C, b))

\* C9: create_container with a name that resolves outside the base path
\* fails with CloudStorageError, and every path the driver creates lies
\* strictly inside the base path.
C9_NothingCreatedOutsideBase ==
    /\ \A q \in DOMAIN fs : IsPrefix(q, base_path) \/ StrictlyInside(base_path, q)
    /\ \A p \in Procs :
          (/\ call[p].op = "create_container"
           /\ Finished(p)
           /\ ~StrictlyInside(base_path, Resolve(TargetPath(call[p]))))
              => /\ pc[p] = "raised"
                 /\ ret[p].exc = "CloudStorageError"

\* C10: delete_container on a container that holds at least one blob
\* raises IsNotEmptyError and changes nothing.
C10_DeleteOfNonEmptyContainerRefused ==
    [][\A p \in Procs :
          (/\ pc[p] = "idle"
           /\ call'[p].op = "delete_container"
           /\ HoldsBlob(fs))
              => /\ pc'[p] = "raised"
                 /\ ret'[p].exc = "IsNotEmptyError"
                 /\ fs' = fs
                 /\ inodes' = inodes]_vars

\* the age of the token of a verdict at its check, in ticks
Age(v) == v.at - v.issue.issued

\* C5: a token issued with expires=N is accepted at every check time
\* issueTime + t with t <= N and rejected with SignatureExpiredError at
\* every check time with t > N (so always, when N is negative).
C5_ValidityWindow ==
    (verdict.kind = "checked" /\ verdict.how = "genuine")
        => IF Age(verdict) <= verdict.issue.expires * TicksPerSec
           THEN verdict.result.kind = "ok"
           ELSE /\ verdict.result.kind = "raise"
                /\ verdict.result.exc = "SignatureExpiredError"

\* C6 as stated: every token that differs from a valid one in its
\* signature segment is rejected with BadSignature, whatever its age.
C6_AnyOtherSignatureRejected ==
    (verdict.kind = "checked" /\ verdict.how \in {"sig_mac", "sig_low"})
        => /\ verdict.result.kind = "raise"
           /\ verdict.result.exc = "BadSignature"

\* C6: every token whose signature segment decodes to another signature
\* than the valid one is rejected with BadSignature, which is not
\* SignatureExpiredError, whatever its age; no payload is returned for it.
C6_ForgedSignatureRejected ==
    (verdict.kind = "checked" /\ verdict.how = "sig_mac")
        => /\ verdict.result.kind = "raise"
           /\ verdict.result.exc = "BadSignature"

C6_Witness ==
    /\ verdict.kind = "checked"
    /\ verdict.how = "sig_mac"
    /\ Age(verdict) > (verdict.issue.tok.payload["max_age"] + 1) * TicksPerSec
    /\ verdict.result.exc = "BadSignature"

(***************************************************************************)
(* Iterating a container: get_blobs (Container.__iter__)                   *)
(***************************************************************************)
\* the name a walked file is materialised under: its base name
\* (`pathlib.Path(full_path).name`)
object_name(q) == <<q[Len(q)]>>

\* LocalDriver.get_blobs consumed to its end (list(container)): every
\* regular file os.walk reaches is handed to _make_blob under its base
\* name; the first item that fails to materialise ends the iteration with
\* its exception.  `names` maps each walked file to the name of the blob
\* yielded for it.
get_blobs(f, ins, c) ==
    LET files == WalkedFiles(f, c)
        failing == {q \in files : _make_blob(f, ins, c, object_name(q)).kind = "raise"}
    IN  IF ~isdir(f, Join(base_path, c))
        THEN [kind |-> "raise", exc |-> "NotFoundError"]
        ELSE IF failing # {}
        THEN [kind |-> "raise",
              exc |-> _make_blob(f, ins, c,
                                 object_name(CHOOSE q \in failing : TRUE)).exc]
        ELSE [kind |-> "ok", names |-> [q \in files |-> object_name(q)]]

\* a caller iterates the container to its end
GetBlobs(p, c) ==
    /\ pc[p] = "idle"
    /\ ncalls < MaxCalls
    /\ ncalls' = ncalls + 1
    /\ call' = [call EXCEPT ![p] = [op |-> "get_blobs", container |-> c, at |-> "none"]]
    /\ LET r == get_blobs(fs, inodes, c) IN
       /\ pc' = [pc EXCEPT ![p] = IF r.kind = "ok" THEN "returned" ELSE "raised"]
       /\ ret' = [ret EXCEPT ![p] = r]
    /\ UNCHANGED <<fs, inodes, fd, lk>>
    /\ UNCHANGED sigVars

\* Callers that upload blobs "a" and "some/a" into the empty container "c"
\* one upload at a time and may be killed, while the container is iterated
\* at any moment and deleted between the uploads.
InitList ==
    /\ fs = FsWithContainer /\ inodes = [i \in {} |-> OldInode]
    /\ InitCallers
    /\ InitSig

NextList ==
    \E p \in Procs :
        \/ \E b \in BlobNames : StartUpload(p, C, b) /\ Alone(p)
        \/ GetBlobs(p, C)
        \/ StartDeleteContainer(p, C) /\ Alone(p)
        \/ Step(p)
        \/ DeleteRmtree(p)
        \/ DeleteContainerReturn(p)
        \/ Kill(p)

SpecList == InitList /\ [][NextList]_vars

\* the files of the blobs the callers upload, and their sidecars
BlobPaths == {Resolve(_get_file_path(C, b)) : b \in BlobNames}
TmpPaths == {Resolve(AddExt(_get_file_path(C, b), ".tmp")) : b \in BlobNames}
LockPaths == {Resolve(AddExt(_get_file_path(C, b), ".lock")) : b \in BlobNames}

\* the name of a walked file relative to the container's folder
RelName(q) == SubSeq(q, Len(Resolve(Join(base_path, C))) + 1, Len(q))

\* C11: no iteration of the container yields a blob for a `.tmp` staging
\* file, be it of an upload in flight or left by an interrupted one.
C11_StagingFilesNeverListed ==
    \A p \in Procs :
        (call[p].op = "get_blobs" /\ pc[p] = "returned")
            => \A q \in DOMAIN ret[p].names : q \notin TmpPaths

\* C12: no iteration of the container yields a blob for a lock sidecar,
\* and delete_container on a container whose only files are lock sidecars
\* does not raise IsNotEmptyError.
C12_LockSidecarsAreNotBlobs ==
    [][\A p \in Procs :
          /\ (pc[p] = "idle" /\ call'[p].op = "get_blobs" /\ pc'[p] = "returned")
                => \A q \in DOMAIN ret'[p].names : q \notin LockPaths
          /\ (/\ pc[p] = "idle"
              /\ call'[p].op = "delete_container"
              /\ WalkedFiles(fs, C) # {}
              /\ WalkedFiles(fs, C) \subseteq LockPaths)
                => ~(pc'[p] = "raised" /\ ret'[p].exc = "IsNotEmptyError")]_vars

\* C17: iterating an existing container that holds blobs only, nested ones
\* included, raises no error and yields each blob once under its name relative to
\* the container.
C17_IterationYieldsRelativeNames ==
    [][\A p \in Procs :
          (/\ pc[p] = "idle"
           /\ call'[p].op = "get_blobs"
           /\ isdir(fs, Join(base_path, C))
           /\ WalkedFiles(fs, C) \subseteq BlobPaths)
              => /\ pc'[p] = "returned"
                 /\ ret'[p].names = [q \in WalkedFiles(fs, C) |-> RelName(q)]]_vars

(***************************************************************************)
(* Metadata of a blob: _set_file_attributes writes it to extended          *)
(* attributes, _make_blob reads it back.  Here a metadata key and an       *)
(* attribute name are spelled out as the sequences of their dot-separated  *)
(* segments: <<"a", "b">> is the key "a.b", <<"user", "metadata", "k">>    *)
(* the attribute "user.metadata.k".                                        *)
(***************************************************************************)
\* the metadata keys and values callers pass
MetaKeys == {<<"k">>, <<"a", "b">>, <<"c">>}
MetaValues == {"", "v"}

\* the meta_data arguments: every map from some of the keys to the values
MetaMaps == UNION {[S -> MetaValues] : S \in SUBSET MetaKeys}

\* LocalDriver._OBJECT_META_PREFIX = "user."
_OBJECT_META_PREFIX == <<"user">>

\* LocalDriver._set_file_attributes(filename, attributes) on a file whose
\* extended attributes are old: an attribute per meta_data entry, named
\* "user.metadata." + meta_key, and "user.content_type"; an entry of
\* `attributes` whose value is empty (None, "", {}) is skipped
_set_file_attributes(old, attributes) ==
    LET meta == attributes.meta_data
        metaNames == {_OBJECT_META_PREFIX \o <<"metadata">> \o k : k \in DOMAIN meta}
        typeNames == IF attributes.content_type = "" THEN {}
                     ELSE {_OBJECT_META_PREFIX \o <<"content_type">>}
    IN  [n \in DOMAIN old \cup metaNames \cup typeNames |->
            IF n \in metaNames
            THEN meta[CHOOSE k \in DOMAIN meta :
                          n = _OBJECT_META_PREFIX \o <<"metadata">> \o k]
            ELSE IF n \in typeNames THEN attributes.content_type
            ELSE old[n]]

\* the meta_data _make_blob builds from the extended attributes of a file:
\* for every attribute whose name starts with "user.metadata",
\* meta_data[attr_key.split(".")[-1]] = value.  (No two of MetaKeys end in
\* the same segment, so no two attributes land on one key.)
meta_data_of(attrs) ==
    LET metaNames == {n \in DOMAIN attrs :
                         Len(n) >= 2 /\ n[1] = "user" /\ n[2] = "metadata"}
        keys == {<<n[Len(n)]>> : n \in metaNames}
    IN  [k \in keys |-> attrs[CHOOSE n \in metaNames : <<n[Len(n)]>> = k]]

\* the blob each caller uploads in the metadata runs
BlobOf(p) == IF p = "p1" THEN A ELSE Nested

\* upload_blob from `self._set_file_attributes(blob_path, attributes)` on:
\* the attributes are written to the file just renamed into place
SetFileAttributes(p) ==
    /\ pc[p] = "m_attrs"
    /\ LET i == fs[Resolve(TargetPath(call[p]))].ino IN
       inodes' = [inodes EXCEPT ![i].attrs =
                    _set_file_attributes(@,
                        [meta_data |-> call[p].meta_data,
                         content_type |-> magic_from_file(inodes[i].data)])]
    /\ Goto(p, "m_get")
    /\ UNCHANGED <<fs, call, fd, lk>>
    /\ UNCHANGED <<ncalls, now, tokens, verdict>>

\* `return self.get_blob(container, blob_name)`: the blob's meta_data is
\* read back from the extended attributes
MakeBlobMetaData(p) ==
    /\ pc[p] = "m_get"
    /\ LET i == fs[Resolve(TargetPath(call[p]))].ino IN
       ret' = [ret EXCEPT ![p] =
                 [kind |-> "ok",
                  blob |-> [name |-> call[p].blob,
                            meta_data |-> meta_data_of(inodes[i].attrs)]]]
    /\ pc' = [pc EXCEPT ![p] = "returned"]
    /\ UNCHANGED <<fs, inodes, call, fd, lk>>
    /\ UNCHANGED <<ncalls, now, tokens, verdict>>

\* Two uploads, of blobs "a" and "some/a", each with a meta_data argument
\* out of MetaMaps, at the point where the blob's file has been renamed
\* into place.
InitMeta ==
    /\ fs = Link(Link(makedirs(FsWithContainer, dirname(_get_file_path(C, Nested))),
                      _get_file_path(C, A), 1),
                 _get_file_path(C, Nested), 2)
    /\ inodes = [i \in {1, 2} |->
                    [data |-> Payload(IF i = 1 THEN "p1" ELSE "p2"),
                     attrs |-> <<>>, flock |-> "none",
                     by |-> IF i = 1 THEN "p1" ELSE "p2"]]
    /\ pc = [p \in Procs |-> "m_attrs"]
    /\ \E M \in [Procs -> MetaMaps] :
          call = [p \in Procs |->
                    [op |-> "upload_blob", container |-> C, blob |-> BlobOf(p),
                     meta_data |-> M[p], at |-> "none"]]
    /\ fd = [p \in Procs |-> NoFd]
    /\ lk = [p \in Procs |-> 0]
    /\ ret = [p \in Procs |-> NoRet]
    /\ ncalls = 0
    /\ InitSig

NextMeta ==
    \E p \in Procs :
        \/ SetFileAttributes(p)
        \/ MakeBlobMetaData(p)

SpecMeta == InitMeta /\ [][NextMeta]_vars

\* C13: the blob upload_blob(..., meta_data=M) returns, and the blob a
\* later get_blob materialises from the same file, has meta_data equal to
\* M: the same keys with the same values.
C13_MetaDataRoundTrip ==
    \A p \in Procs :
        pc[p] = "returned"
            => /\ ret[p].blob.meta_data = call[p].meta_data
               /\ meta_data_of(inodes[fs[Resolve(TargetPath(call[p]))].ino].attrs)
                     = call[p].meta_data

(***************************************************************************)
(* Reading blobs: download_blob, and callers that upload, overwrite, read  *)
(* and delete blobs one call after the other                               *)
(***************************************************************************)
\* LocalDriver.download_blob(blob, destination) for the blob handle (c, b):
\* the bytes of the file at the blob's path are copied to the destination;
\* open / shutil.copy raise the built-in FileNotFoundError when it is gone
DownloadBlob(p, c, b) ==
    /\ pc[p] = "idle"
    /\ ncalls < MaxCalls
    /\ ncalls' = ncalls + 1
    /\ call' = [call EXCEPT ![p] =
                  [op |-> "download_blob", container |-> c, blob |-> b, at |-> "none"]]
    /\ LET path == _get_file_path(c, b) IN
       IF isfile(fs, path)
       THEN /\ pc' = [pc EXCEPT ![p] = "returned"]
            /\ ret' = [ret EXCEPT ![p] =
                         [kind |-> "ok",
                          bytes |-> inodes[fs[Resolve(path)].ino].data]]
       ELSE Raise(p, IF Exists(fs, path) THEN "IsADirectoryError"
                     ELSE "FileNotFoundError")
    /\ UNCHANGED <<fs, inodes, fd, lk>>
    /\ UNCHANGED sigVars

\* the name of the staging file of blob "a", asked for as a blob
ATmp == <<"a.tmp">>

\* the names callers ask get_blob for
ReadNames == BlobNames \cup {ATmp}

\* Callers that upload, overwrite, read, download and delete the blobs "a"
\* and "some/a" of container "c", one call at a time; a caller may be
\* killed at any statement and the source stream of an upload may fail.
NextBlobs ==
    \E p \in Procs :
        \/ \E b \in BlobNames : StartUpload(p, C, b) /\ Alone(p)
        \/ \E b \in ReadNames : GetBlob(p, C, b) /\ Alone(p)
        \/ \E b \in BlobNames : DownloadBlob(p, C, b) /\ Alone(p)
        \/ \E b \in BlobNames : StartDeleteBlob(p, C, b) /\ Alone(p)
        \/ Step(p)
        \/ DeleteUnlink(p)
        \/ DeleteReturn(p)
        \/ Kill(p)

SpecBlobs == Init /\ [][NextBlobs]_vars

\* what get_blob reports of the content stored under blob name b
Stored(f, ins, b) ==
    LET r == _make_blob(f, ins, C, b) IN
    IF r.kind = "ok"
    THEN [kind |-> "ok", checksum |-> r.blob.checksum, size |-> r.blob.size]
    ELSE r

\* this step is the commit (os.rename) of p's upload of b
Committing(p, b) ==
    /\ call[p].op = "upload_blob" /\ call[p].blob = b
    /\ pc[p] = "u_rename" /\ pc'[p] = "u_chmod"

\* this step is the os.unlink of p's delete_blob of b
Deleting(p, b) ==
    /\ call[p].op = "delete_blob" /\ call[p].blob = b
    /\ pc[p] = "d_unlink" /\ pc'[p] = "release"

\* C14: under every blob name, checksum and size reported by get_blob and
\* the bytes download_blob copies are those of the content most recently
\* committed under that name: a commit makes them those of the committed
\* payload, a delete makes the blob absent, no other step changes them, and
\* every read (get_blob, the blob upload_blob returns, download_blob)
\* reports the bytes that are in the file at that moment.
C14_ReadsReportLastCommittedContent ==
    [][\A b \in BlobNames :
          /\ \A p \in Procs :
                Committing(p, b)
                    => Stored(fs', inodes', b) =
                          [kind |-> "ok", checksum |-> Payload(p),
                           size |-> Len(Payload(p))]
          /\ \A p \in Procs :
                Deleting(p, b)
                    => Stored(fs', inodes', b) =
                          [kind |-> "raise", exc |-> "NotFoundError"]
          /\ (~\E p \in Procs : Committing(p, b) \/ Deleting(p, b))
                => Stored(fs', inodes', b) = Stored(fs, inodes, b)
          /\ \A p \in Procs :
                (/\ pc'[p] = "returned" /\ pc[p] # "returned"
                 /\ call'[p].op \in {"get_blob", "upload_blob", "download_blob"}
                 /\ call'[p].blob = b)
                    => /\ Stored(fs', inodes', b).kind = "ok"
                       /\ IF call'[p].op = "download_blob"
                          THEN ret'[p].bytes = Stored(fs', inodes', b).checksum
                          ELSE /\ ret'[p].blob.checksum = Stored(fs', inodes', b).checksum
                               /\ ret'[p].blob.size = Stored(fs', inodes', b).size]_vars

\* a caller's upload has been committed and a later download by another
\* caller has copied its payload
C14_Witness ==
    \E p \in Procs :
        /\ call[p].op = "download_blob"
        /\ pc[p] = "returned"
        /\ ret[p].bytes \in {Payload(q) : q \in Procs \ {p}}
        /\ \E i \in DOMAIN inodes : inodes[i].data = ret[p].bytes /\ i > 1

\* C18: delete_blob and download_blob of a blob handle whose file is gone
\* (deleted through another handle or by another caller) raise
\* NotFoundError.
C18_GoneBlobRaisesNotFound ==
    [][\A p \in Procs :
          /\ (/\ pc[p] = "idle"
              /\ call'[p].op = "download_blob"
              /\ ~Exists(fs, _get_file_path(C, call'[p].blob)))
                => /\ pc'[p] = "raised"
                   /\ ret'[p].exc = "NotFoundError"
          /\ (/\ call[p].op = "delete_blob"
              /\ pc[p] = "d_unlink"
              /\ pc'[p] \notin {"d_unlink", "killed"}
              /\ ~Exists(fs, TargetPath(call[p])))
                => /\ pc'[p] = "raised"
                   /\ ret'[p].exc = "NotFoundError"]_vars

\* C19: when upload_blob returns, get_blob of that name gives a blob equal
\* to the returned one (equal checksums) and the name is in the container;
\* when delete_blob returns, get_blob of the name raises NotFoundError;
\* get_blob of a name that no caller ever uploaded raises NotFoundError.
C19_GetBlobFollowsUploadAndDelete ==
    [][\A p \in Procs :
          /\ (pc[p] = "u_get" /\ pc'[p] = "returned")
                => /\ _make_blob(fs', inodes', C, call[p].blob).kind = "ok"
                   /\ _make_blob(fs', inodes', C, call[p].blob).blob.checksum
                         = ret'[p].blob.checksum
          /\ (pc[p] = "d_done" /\ pc'[p] = "returned")
                => _make_blob(fs', inodes', C, call[p].blob)
                      = [kind |-> "raise", exc |-> "NotFoundError"]
          /\ (/\ pc[p] = "idle"
              /\ call'[p].op = "get_blob"
              /\ call'[p].blob \notin BlobNames)
                => /\ pc'[p] = "raised"
                   /\ ret'[p].exc = "NotFoundError"]_vars

(***************************************************************************)
(* Concurrent callers on the blobs of one container                        *)
(***************************************************************************)
\* Callers that concurrently upload and delete blob "a" of container "c";
\* the source stream of an upload may fail.
NextPar ==
    \E p \in Procs :
        \/ StartUpload(p, C, A)
        \/ StartDeleteBlob(p, C, A)
        \/ Step(p)
        \/ DeleteUnlink(p)
        \/ DeleteReturn(p)

SpecPar == Init /\ [][NextPar]_vars

\* the lock file of p's call exists and another caller holds its flock
LockHeldByOther(p) ==
    /\ isfile(fs, LockFile(call[p]))
    /\ inodes[fs[Resolve(LockFile(call[p]))].ino].flock \notin {"none", p}

\* C15: when upload_blob or delete_blob leaves lock_local_file's acquire
\* while another caller holds the lock of its path, it leaves it by raising
\* CloudStorageError, without entering the block and without a second
\* attempt, and it has written nothing: no staging file is open, and files
\* and directory entries are as they were.
C15_LockTimeoutFailsAtOnce ==
    [][\A p \in Procs :
          (/\ call[p].op \in {"upload_blob", "delete_blob"}
           /\ pc[p] = "acquire"
           /\ pc'[p] # "acquire"
           /\ LockHeldByOther(p))
              => /\ pc'[p] = "raised"
                 /\ ret'[p].exc = "CloudStorageError"
                 /\ fd[p] = NoFd /\ fd'[p] = NoFd
                 /\ lk'[p] = 0
                 /\ fs' = fs
                 /\ inodes' = inodes]_vars

\* a delete_blob has failed on the lock an upload in its staging write holds
C15_Witness ==
    \E p, q \in Procs :
        /\ p # q
        /\ call[p].op = "delete_blob"
        /\ pc[p] = "raised"
        /\ ret[p].exc = "CloudStorageError"
        /\ call[q].op = "upload_blob"
        /\ pc[q] = "u_write"
        /\ lk[q] # 0
        /\ _get_file_path(C, call[q].blob) = _get_file_path(C, call[p].blob)

\* the blob name each caller uploads when the callers use distinct names:
\* "a" and "a.tmp"
OwnName(p) == IF p = "p1" THEN A ELSE ATmp

\* the steps of an upload whose path lock no other caller asks for, so
\* that the acquire never runs into its timeout
UncontendedStep(p) ==
    \/ Acquire(p)
    \/ Release(p)
    \/ LockExists(p)
    \/ LockRemove(p)
    \/ Finalize(p)
    \/ UploadMkdir(p)
    \/ UploadOpen(p)
    \/ UploadWrite(p)
    \/ StreamError(p)
    \/ UploadClose(p)
    \/ UploadRename(p)
    \/ UploadChmod(p)
    \/ UploadAttrs(p)
    \/ UploadReturn(p)
    \/ Again(p)

\* Two callers that upload concurrently into container "c", each under a
\* blob name of its own.
NextTwo ==
    \E p \in Procs :
        \/ StartUpload(p, C, OwnName(p))
        \/ UncontendedStep(p)

SpecTwo == Init /\ [][NextTwo]_vars

\* C16: two concurrent uploads to distinct blob names of the container do
\* not disturb each other: neither fails for another reason than its own
\* source stream, and when both have finished each name whose upload
\* returned holds the payload uploaded under it.
C16_DistinctNamesIndependent ==
    \A p, q \in Procs :
        (/\ p # q
         /\ call[p].op = "upload_blob" /\ call[q].op = "upload_blob"
         /\ call[p].blob # call[q].blob)
            => /\ pc[p] = "raised" => ret[p].exc = "IOError"
               /\ (Finished(p) /\ Finished(q) /\ pc[p] = "returned")
                     => /\ _make_blob(fs, inodes, C, call[p].blob).kind = "ok"
                        /\ _make_blob(fs, inodes, C, call[p].blob).blob.checksum
                              = Payload(p)

(***************************************************************************)
(* Containers: get_container (`name in storage`), create_container,        *)
(* delete_container                                                        *)
(***************************************************************************)
\* LocalDriver._make_container(folder_name) on file system f: os.stat of
\* base_path joined with the name; whatever the path leads to makes a
\* Container of that name
_make_container(f, folder_name) ==
    LET full_path == Join(base_path, folder_name) IN
    IF ~_check_path_accessible(full_path) \/ ~Exists(f, full_path)
    THEN [kind |-> "raise", exc |-> "NotFoundError"]
    ELSE [kind |-> "ok", container |-> folder_name]

\* LocalDriver.get_container(container_name)
GetContainer(p, c) ==
    /\ pc[p] = "idle"
    /\ ncalls < MaxCalls
    /\ ncalls' = ncalls + 1
    /\ call' = [call EXCEPT ![p] = [op |-> "get_container", container |-> c, at |-> "none"]]
    /\ LET r == _make_container(fs, c) IN
       /\ pc' = [pc EXCEPT ![p] = IF r.kind = "ok" THEN "returned" ELSE "raised"]
       /\ ret' = [ret EXCEPT ![p] = r]
    /\ UNCHANGED <<fs, inodes, fd, lk>>
    /\ UNCHANGED sigVars

\* the names callers ask get_container for: the container "c", the parent
\* of the base path, and the name of the lock file of "c"
Parent == <<"..">>
CLock == <<"c.lock">>
QueryNames == {C, Parent, CLock}

\* Callers that create, look up and delete container "c", one call at a
\* time, starting from a fresh base path or with the container there; a
\* caller may be killed at any statement.
InitContainers ==
    /\ fs \in {FsAfterInit, FsWithContainer}
    /\ inodes = [i \in {} |-> OldInode]
    /\ InitCallers
    /\ InitSig

NextContainers ==
    \E p \in Procs :
        \/ StartCreateContainer(p, C) /\ Alone(p)
        \/ StartDeleteContainer(p, C) /\ Alone(p)
        \/ \E c \in QueryNames : GetContainer(p, c) /\ Alone(p)
        \/ Acquire(p)
        \/ Release(p)
        \/ LockExists(p)
        \/ LockRemove(p)
        \/ CreateMkdir(p)
        \/ CreateReturn(p)
        \/ DeleteRmtree(p)
        \/ DeleteContainerReturn(p)
        \/ Again(p)
        \/ Kill(p)

SpecContainers == InitContainers /\ [][NextContainers]_vars

\* C20: get_container(name) returns the container, and `name in storage`
\* is true, exactly when a container of that name was created and not
\* deleted since; for every other name it raises NotFoundError.  Container
\* "c" is there from the return of create_container to the return of
\* delete_container; no caller creates a container of another name.
C20_ContainerMembership ==
    [][\A p \in Procs :
          /\ (pc[p] = "c_make" /\ pc'[p] = "returned")
                => isdir(fs', Join(base_path, C))
          /\ (pc[p] = "rm_done" /\ pc'[p] = "returned")
                => ~Exists(fs', Join(base_path, C))
          /\ (pc[p] = "idle" /\ call'[p].op = "get_container")
                => IF call'[p].container = C /\ isdir(fs, Join(base_path, C))
                   THEN /\ pc'[p] = "returned"
                        /\ ret'[p].container = C
                   ELSE /\ pc'[p] = "raised"
                        /\ ret'[p].exc = "NotFoundError"]_vars

(***************************************************************************)
(* create_container on a container that is already there                   *)
(***************************************************************************)
\* Callers that create container "c" again and again and upload blob "a"
\* into it, one call at a time, starting with the container there (empty
\* or holding a blob); a caller may be killed at any statement.
NextCreate ==
    \E p \in Procs :
        \/ StartCreateContainer(p, C) /\ Alone(p)
        \/ StartUpload(p, C, A) /\ Alone(p)
        \/ Step(p)
        \/ CreateMkdir(p)
        \/ CreateReturn(p)
        \/ Kill(p)

SpecCreate == Init /\ [][NextCreate]_vars

\* C21: create_container with the name of a container that is there raises
\* no error, returns that container, and no statement of it changes a blob
\* stored in the container.
C21_CreateContainerIdempotent ==
    [][\A p \in Procs :
          (/\ call'[p].op = "create_container"
           /\ pc'[p] \notin {pc[p], "killed", "idle"}
           /\ isdir(fs, Join(base_path, C)))
              => /\ pc'[p] # "raised"
                 /\ pc'[p] = "returned" => ret'[p] = [kind |-> "ok", container |-> C]
                 /\ isdir(fs', Join(base_path, C))
                 /\ \A b \in BlobNames :
                       _make_blob(fs', inodes', C, b) = _make_blob(fs, inodes, C, b)]_vars

\* create_container has returned the container that holds the blob an
\* earlier caller stored in it
C21_Witness ==
    \E p \in Procs :
        /\ call[p].op = "create_container"
        /\ pc[p] = "returned"
        /\ ret[p] = [kind |-> "ok", container |-> C]
        /\ isfile(fs, _get_file_path(C, A))
        /\ inodes[fs[Resolve(_get_file_path(C, A))].ino].by = "p0"

(***************************************************************************)
(* Signed tokens generated with caller-supplied `extra` options            *)
(***************************************************************************)
\* the name of another blob of the container
B == <<"b">>

\* the `extra` arguments callers pass: none, a max_age, a blob_name
ExtraMaps == Extras \cup {[blob_name |-> B]}

\* A driver that hands out tokens for blob "a" of container "c", generated
\* with any of the extra maps, and validates the tokens presented to it,
\* while time passes.
NextExtra ==
    \/ \E e \in Expiries, x \in ExtraMaps : generate_blob_download_url(e, x)
    \/ \E e \in Expiries, x \in ExtraMaps : generate_container_upload_url(e, x)
    \/ \E issue \in tokens, how \in Presentations : ValidateSignature(issue, how)
    \/ Tick

SpecExtra == InitSigned /\ [][NextExtra]_vars

\* C22: a token presented as issued within its validity window is
\* accepted, and the payload validate_signature returns carries the
\* blob_name, container and content_disposition (for an upload token also
\* meta_data and cache_control) the token was generated with.
C22_SignedPayloadRoundTrip ==
    (verdict.kind = "checked" /\ verdict.how = "genuine")
        => /\ Age(verdict) <= verdict.issue.expires * TicksPerSec
                 => verdict.result.kind = "ok"
           /\ verdict.result.kind = "ok"
                 => /\ verdict.result.payload["blob_name"] = A
                    /\ verdict.result.payload["container"] = C
                    /\ verdict.result.payload["content_disposition"] = "None"
                    /\ verdict.issue.for = "upload"
                          => /\ verdict.result.payload["meta_data"] = NoAttrs
                             /\ verdict.result.payload["cache_control"] = "None"

\* C27: whatever extra map a token was generated with, validate_signature
\* rejects it once more than its `expires` seconds have passed, and the
\* payload of an accepted token names the blob and the container the
\* token was generated for.
C27_ExtraCannotChangeProtectedFields ==
    (verdict.kind = "checked" /\ verdict.how = "genuine")
        => /\ Age(verdict) >= (verdict.issue.expires + 1) * TicksPerSec
                 => /\ verdict.result.kind = "raise"
                    /\ verdict.result.exc = "SignatureExpiredError"
           /\ verdict.result.kind = "ok"
                 => /\ verdict.result.payload["blob_name"] = A
                    /\ verdict.result.payload["container"] = C


(***************************************************************************)
(* The attribute backends.  _make_xattr gives the native extended          *)
(* attributes of the file, or XattrWindows when the driver's is_windows    *)
(* is set: a JSON document in the file ".<filename>.xattr" next to the     *)
(* blob.  `nt` below is the driver's is_windows.                           *)
(***************************************************************************)
\* str.startswith and str.endswith
startswith(s, prefix) ==
    Len(s) >= Len(prefix) /\ SubSeq(s, 1, Len(prefix)) = prefix

endswith(s, suffix) ==
    Len(s) >= Len(suffix) /\ SubSeq(s, Len(s) - Len(suffix) + 1, Len(s)) = suffix

\* a second container, and the metadata the callers of these runs pass
W == <<"w">>
BackendMetas == {M \in MetaMaps : DOMAIN M \in {{}, {<<"k">>}, {<<"c">>}}
                                     /\ \A k \in DOMAIN M : M[k] = "v"}

\* XattrWindows.__init__: the sidecar of a file
xattr_filename(filename) ==
    Join(dirname(filename), <<"." \o filename[Len(filename)] \o ".xattr">>)

\* json.dump / json.load of a dictionary of strings
json_dump(d) == <<"json", d>>
json_load(doc) == doc[2]

\* a driver that hides nothing
_check_path_accessible_all(nt, path) == TRUE

\* LocalDriver._check_path_accessible for a driver whose is_windows is nt
_check_path_accessible_nt(nt, path) ==
    LET name == path[Len(path)] IN
    ~(nt /\ startswith(name, ".") /\ endswith(name, ".xattr"))

\* XattrWindows._load: the document of the sidecar, {} without a sidecar
XattrWindows_load(f, ins, filename) ==
    LET x == xattr_filename(filename) IN
    IF Exists(f, x) THEN json_load(ins[f[Resolve(x)].ino].data) ELSE <<>>

\* what the attribute store does during a call: it works, or the file
\* system rejects every write of an attribute, or every read (OSError)
Stores == {"ok", "no_write", "no_read"}

\* `self._make_xattr(full_path).items()`
xattr_items(nt, f, ins, filename) ==
    IF nt THEN XattrWindows_load(f, ins, filename)
    ELSE ins[f[Resolve(filename)].ino].attrs

\* a _make_blob that reports the OSError of the attribute store
_make_blob_raising(nt, store, f, ins, c, b) ==
    LET path == _get_file_path(c, b) IN
    IF ~_check_path_accessible_nt(nt, path) \/ ~Exists(f, path)
    THEN [kind |-> "raise", exc |-> "NotFoundError"]
    ELSE IF isdir(f, path)
    THEN [kind |-> "raise", exc |-> "IsADirectoryError"]
    ELSE IF store = "no_read"
    THEN [kind |-> "raise", exc |-> "CloudStorageError"]
    ELSE LET node == ins[f[Resolve(path)].ino] IN
         [kind |-> "ok",
          blob |-> [name |-> b, checksum |-> node.data,
                    meta_data |-> meta_data_of(xattr_items(nt, f, ins, path))]]

\* LocalDriver._make_blob with the blob's meta_data; an OSError of the
\* attribute store is logged (LOCAL_NO_ATTRIBUTES) and the blob is built
\* without attributes
_make_blob_nt(nt, store, f, ins, c, b) ==
    LET path == _get_file_path(c, b) IN
    IF ~_check_path_accessible_nt(nt, path) \/ ~Exists(f, path)
    THEN [kind |-> "raise", exc |-> "NotFoundError"]
    ELSE IF isdir(f, path)
    THEN [kind |-> "raise", exc |-> "IsADirectoryError"]
    ELSE LET node == ins[f[Resolve(path)].ino] IN
         [kind |-> "ok",
          blob |-> [name |-> b, checksum |-> node.data,
                    meta_data |-> IF store = "no_read" THEN <<>>
                                  ELSE meta_data_of(xattr_items(nt, f, ins, path))]]

\* the files get_blobs hands to _make_blob: those os.walk reaches and
\* _check_path_accessible lets through
ListedFiles(nt, f, c) ==
    {q \in WalkedFiles(f, c) : _check_path_accessible_nt(nt, q)}

\* LocalDriver.get_blobs consumed to its end
get_blobs_nt(nt, f, ins, c) ==
    LET files == ListedFiles(nt, f, c)
        failing == {q \in files :
                       _make_blob_nt(nt, "ok", f, ins, c, object_name(q)).kind = "raise"}
    IN  IF ~isdir(f, Join(base_path, c))
        THEN [kind |-> "raise", exc |-> "NotFoundError"]
        ELSE IF failing # {}
        THEN [kind |-> "raise",
              exc |-> _make_blob_nt(nt, "ok", f, ins, c,
                                    object_name(CHOOSE q \in failing : TRUE)).exc]
        ELSE [kind |-> "ok", names |-> [q \in files |-> object_name(q)]]

\* upload_blob(stream, blob_name=b, meta_data=M) by caller p on the file
\* system (f, ins) when no other call runs: the payload is staged under
\* the path lock, renamed into place, then the attributes are written and
\* the blob is read back; an OSError of an attribute write is logged
\* (LOCAL_NO_ATTRIBUTES) and swallowed.  The result is the file system left behind and
\* what the call returns or raises.
upload_blob_nt(nt, store, f, ins, p, c, b, M) ==
    LET path == _get_file_path(c, b)
        f1 == makedirs(f, dirname(path))
        i == FreeIno(ins)
        f2 == Link(f1, path, i)
        attributes == [meta_data |-> M,
                       content_type |-> magic_from_file(Payload(p))]
        x == xattr_filename(path)
        j == IF Exists(f2, x) THEN f2[Resolve(x)].ino
             ELSE FreeIno([n \in DOMAIN ins \cup {i} |-> 0])
        f3 == IF nt /\ store # "no_write" THEN Link(f2, x, j) ELSE f2
        ins2 == [n \in DOMAIN ins \cup {i} |->
                    IF n = i THEN [NewInode(p) EXCEPT !.data = Payload(p)]
                    ELSE ins[n]]
        ins3 == IF store = "no_write" THEN ins2
                ELSE IF nt
                THEN [n \in DOMAIN ins2 \cup {j} |->
                        IF n = j
                        THEN [NewInode(p) EXCEPT !.data =
                                json_dump(_set_file_attributes(
                                    XattrWindows_load(f2, ins2, path),
                                    attributes))]
                        ELSE ins2[n]]
                ELSE [ins2 EXCEPT ![i].attrs =
                        _set_file_attributes(NoAttrs, attributes)]
        ins4 == Reclaim(ins3, f3, fd, lk)
    IN
    IF ~isdir(f, Join(base_path, c))
    THEN [fs |-> f, inodes |-> ins,
          ret |-> [kind |-> "raise", exc |-> "NotFoundError"]]
    ELSE IF ~isdir(f1, dirname(path))
    THEN [fs |-> f, inodes |-> ins,
          ret |-> [kind |-> "raise", exc |-> "FileNotFoundError"]]
    ELSE IF isdir(f1, path)
    THEN [fs |-> f1, inodes |-> ins,
          ret |-> [kind |-> "raise", exc |-> "IsADirectoryError"]]
    ELSE [fs |-> f3, inodes |-> ins4, ret |-> _make_blob_nt(nt, store, f3, ins4, c, b)]

\* delete_blob up to `if self.is_windows:`: the file is unlinked under the
\* path lock, an OSError of os.unlink is logged and swallowed
delete_blob_unlink(f, ins, c, b) ==
    LET path == _get_file_path(c, b)
        f1 == IF isfile(f, path) THEN Unlink(f, path) ELSE f
    IN  IF ~isdir(f, dirname(path))
        THEN [fs |-> f, inodes |-> ins,
              ret |-> [kind |-> "raise", exc |-> "FileNotFoundError"]]
        ELSE [fs |-> f1, inodes |-> Reclaim(ins, f1, fd, lk),
              ret |-> [kind |-> "ok"]]

\* XattrWindows.remove_attributes: the sidecar, when there is one, is
\* unlinked under its own path lock
remove_attributes(f, ins, c, b) ==
    LET x == xattr_filename(_get_file_path(c, b))
        f1 == IF isfile(f, x) THEN Unlink(f, x) ELSE f
    IN  [fs |-> f1, inodes |-> Reclaim(ins, f1, fd, lk), ret |-> [kind |-> "ok"]]

\* delete_container: the emptiness check takes the first item of
\* get_blobs (os.walk hands out the files of the folder itself first); an
\* empty container is removed under its path lock.  The outcomes, one per
\* file the walk may hand out first.
delete_container_nt(nt, f, ins, c) ==
    LET files == ListedFiles(nt, f, c)
        depth == {Len(q) : q \in files}
        first == {q \in files : \A d \in depth : Len(q) <= d}
        f1 == rmtree(f, Join(base_path, c))
    IN  IF ~isdir(f, Join(base_path, c))
        THEN {[fs |-> f, inodes |-> ins,
               ret |-> [kind |-> "raise", exc |-> "NotFoundError"]]}
        ELSE IF files # {}
        THEN {[fs |-> f, inodes |-> ins,
               ret |-> LET item == _make_blob_nt(nt, "ok", f, ins, c, object_name(q)) IN
                       [kind |-> "raise",
                        exc |-> IF item.kind = "ok" THEN "IsNotEmptyError"
                                ELSE item.exc]] : q \in first}
        ELSE {[fs |-> f1, inodes |-> Reclaim(ins, f1, fd, lk),
               ret |-> [kind |-> "ok"]]}

\* a caller between two calls
Ready(p) == pc[p] \in {"idle", "returned", "raised"}

\* the calls made so far, in their order (`hist` of the latest call)
History ==
    call[CHOOSE p \in Procs :
             \A q \in Procs : Len(call[q].hist) <= Len(call[p].hist)].hist

\* caller p makes a call while no other call runs
Called(p, op, c, b, M, store) ==
    /\ Ready(p)
    /\ Alone(p)
    /\ ncalls < MaxCalls
    /\ ncalls' = ncalls + 1
    /\ call' = [call EXCEPT ![p] =
                  [op |-> op, container |-> c, blob |-> b, at |-> "none",
                   store |-> store,
                   hist |-> Append(History, <<p, op, b, M>>)]]

\* the call returns or raises r.ret and leaves the file system of r
Outcome(p, r) ==
    /\ fs' = r.fs
    /\ inodes' = r.inodes
    /\ pc' = [pc EXCEPT ![p] = IF r.ret.kind = "ok" THEN "returned" ELSE "raised"]
    /\ ret' = [ret EXCEPT ![p] = r.ret]
    /\ UNCHANGED <<fd, lk>>
    /\ UNCHANGED sigVars

UploadBlobNt(nt, store, p, c, b, M) ==
    /\ Called(p, "upload_blob", c, b, M, store)
    /\ Outcome(p, upload_blob_nt(nt, store, fs, inodes, p, c, b, M))

\* get_blob(b)
GetBlobNt(nt, store, p, c, b) ==
    /\ Called(p, "get_blob", c, b, <<>>, store)
    /\ Outcome(p, [fs |-> fs, inodes |-> inodes,
                   ret |-> _make_blob_nt(nt, store, fs, inodes, c, b)])

\* list(container)
GetBlobsNt(nt, p, c) ==
    /\ Called(p, "get_blobs", c, <<>>, <<>>, "ok")
    /\ Outcome(p, [fs |-> fs, inodes |-> inodes,
                   ret |-> get_blobs_nt(nt, fs, inodes, c)])

\* delete_blob; with the JSON-sidecar backend remove_attributes follows
DeleteBlobNt(nt, p, c, b) ==
    /\ Called(p, "delete_blob", c, b, <<>>, "ok")
    /\ LET r == delete_blob_unlink(fs, inodes, c, b) IN
       IF nt /\ r.ret.kind = "ok"
       THEN /\ fs' = r.fs
            /\ inodes' = r.inodes
            /\ Goto(p, "x_remove")
            /\ UNCHANGED <<fd, lk>>
            /\ UNCHANGED sigVars
       ELSE Outcome(p, r)

RemoveAttributes(p) ==
    /\ pc[p] = "x_remove"
    /\ Outcome(p, remove_attributes(fs, inodes, call[p].container, call[p].blob))
    /\ UNCHANGED <<call, ncalls>>

DeleteContainerNt(nt, p, c) ==
    /\ Called(p, "delete_container", c, <<>>, <<>>, "ok")
    /\ \E r \in delete_container_nt(nt, fs, inodes, c) : Outcome(p, r)

\* Callers of a driver with the JSON-sidecar backend that upload, read,
\* list and delete the blobs "a" and "some/a" of container "w" and delete
\* the container, one call at a time; a caller may be killed between the
\* two halves of delete_blob.
SidecarPaths == {xattr_filename(_get_file_path(W, b)) : b \in BlobNames}
SidecarNames == {SubSeq(x, Len(base_path) + Len(W) + 1, Len(x)) : x \in SidecarPaths}

FsWithW == makedirs(FsAfterInit, Join(base_path, W))

InitSidecar ==
    /\ fs = FsWithW
    /\ inodes = [i \in {} |-> OldInode]
    /\ pc = [p \in Procs |-> "idle"]
    /\ call = [p \in Procs |-> [op |-> "none", at |-> "none", store |-> "ok", hist |-> <<>>]]
    /\ fd = [p \in Procs |-> NoFd]
    /\ lk = [p \in Procs |-> 0]
    /\ ret = [p \in Procs |-> NoRet]
    /\ ncalls = 0
    /\ InitSig

NextSidecar ==
    \E p \in Procs :
        \/ \E b \in BlobNames, M \in BackendMetas : UploadBlobNt(TRUE, "ok", p, W, b, M)
        \/ \E b \in BlobNames \cup SidecarNames : GetBlobNt(TRUE, "ok", p, W, b)
        \/ GetBlobsNt(TRUE, p, W)
        \/ \E b \in BlobNames : DeleteBlobNt(TRUE, p, W, b)
        \/ RemoveAttributes(p)
        \/ DeleteContainerNt(TRUE, p, W)
        \/ Kill(p)

SpecSidecar == InitSidecar /\ [][NextSidecar]_vars

\* C23: with the JSON-sidecar backend, iterating the container never
\* yields the ".<filename>.xattr" sidecar of a blob, get_blob on the name
\* of a sidecar that is there raises NotFoundError, and delete_container
\* removes a container whose only files are sidecars: sidecars do not count
\* in its emptiness check.
C23_SidecarsAreHidden ==
    [][\A p \in Procs :
          Len(call'[p].hist) > Len(call[p].hist) =>
            /\ (call'[p].op = "get_blobs" /\ pc'[p] = "returned")
                  => /\ DOMAIN ret'[p].names \cap SidecarPaths = {}
                     /\ \A q \in DOMAIN ret'[p].names :
                            ret'[p].names[q] \notin SidecarNames
            /\ (call'[p].op = "get_blob" /\ call'[p].blob \in SidecarNames
                    /\ Exists(fs, _get_file_path(W, call'[p].blob)))
                  => ret'[p] = [kind |-> "raise", exc |-> "NotFoundError"]
            /\ (call'[p].op = "delete_container" /\ isdir(fs, Join(base_path, W))
                    /\ WalkedFiles(fs, W) \subseteq SidecarPaths)
                  => /\ pc'[p] = "returned"
                     /\ ~Exists(fs', Join(base_path, W))]_vars

\* a sidecar outlived its blob (the caller deleting the blob was killed
\* before remove_attributes), and a listing of the container came back
\* empty
C23_Witness ==
    \E p \in Procs :
        /\ call[p].op = "get_blobs" /\ pc[p] = "returned"
        /\ DOMAIN ret[p].names = {}
        /\ WalkedFiles(fs, W) # {}
        /\ WalkedFiles(fs, W) \subseteq SidecarPaths


(***************************************************************************)
(* A file system that rejects extended attributes                          *)
(***************************************************************************)
\* Callers of a driver with the native backend that upload, read and
\* delete blob "a" of container "c", one call at a time; during any call
\* the file system may reject the writes or the reads of attributes.
InitAttrs ==
    /\ fs = FsWithContainer
    /\ inodes = [i \in {} |-> OldInode]
    /\ pc = [p \in Procs |-> "idle"]
    /\ call = [p \in Procs |-> [op |-> "none", at |-> "none", store |-> "ok", hist |-> <<>>]]
    /\ fd = [p \in Procs |-> NoFd]
    /\ lk = [p \in Procs |-> 0]
    /\ ret = [p \in Procs |-> NoRet]
    /\ ncalls = 0
    /\ InitSig

NextAttrs ==
    \E p \in Procs, store \in Stores :
        \/ \E M \in BackendMetas : UploadBlobNt(FALSE, store, p, C, A, M)
        \/ GetBlobNt(FALSE, store, p, C, A)
        \/ DeleteBlobNt(FALSE, p, C, A)

SpecAttrs == InitAttrs /\ [][NextAttrs]_vars

Replayed(nt, st, e) ==
    CASE e[2] = "upload_blob" ->
            upload_blob_nt(nt, "ok", st.fs, st.inodes, e[1], W, e[3], e[4])
      [] e[2] = "delete_blob" ->
            LET r == delete_blob_unlink(st.fs, st.inodes, W, e[3]) IN
            IF nt /\ r.ret.kind = "ok"
            THEN remove_attributes(r.fs, r.inodes, W, e[3])
            ELSE r
      [] e[2] = "delete_container" ->
            CHOOSE r \in delete_container_nt(nt, st.fs, st.inodes, W) : TRUE
      [] OTHER -> st

RECURSIVE Replay(_, _, _)
\* the file system a driver whose is_windows is nt leaves behind when the
\* calls of h are made through it, one after the other, starting from st
Replay(nt, st, h) ==
    IF h = <<>> THEN st
    ELSE Replay(nt, Replayed(nt, st, Head(h)), Tail(h))

\* C29: a re-upload of a stored blob with meta_data M2 returns a blob whose
\* meta_data is exactly M2, and after every sequence of completed uploads,
\* re-uploads and deletes the JSON-sidecar driver reports for every blob
\* name what the native-xattr driver reports after the same sequence.
C29_ReuploadReplacesMetaData ==
    [][(\A q \in Procs : Ready(q)') =>
          /\ \A p \in Procs :
                (/\ call'[p].hist # call[p].hist
                 /\ call'[p].op = "upload_blob"
                 /\ pc'[p] = "returned"
                 /\ isfile(fs, _get_file_path(W, call'[p].blob)))
                    => ret'[p].blob.meta_data = call'[p].hist[Len(call'[p].hist)][4]
          /\ LET native == Replay(FALSE, [fs |-> FsWithW, inodes |-> <<>>], History') IN
             \A b \in BlobNames :
                LET here == _make_blob_nt(TRUE, "ok", fs', inodes', W, b)
                    there == _make_blob_nt(FALSE, "ok", native.fs, native.inodes, W, b)
                IN  /\ here.kind = there.kind
                    /\ here.kind = "ok" => here.blob.meta_data = there.blob.meta_data]_vars


(***************************************************************************)
(* The path lock under concurrent callers                                  *)
(***************************************************************************)
\* caller p is between a successful acquire and the release of the lock of
\* the path its call works on
InLock(p) == lk[p] # 0

\* C25: the path lock is exclusive: of the concurrent upload_blob and
\* delete_blob calls on one path, at every time at most one is between a
\* successful acquire and its release in lock_local_file.
C25_PathLockIsExclusive ==
    \A p, q \in Procs :
        (/\ p # q
         /\ InLock(p) /\ InLock(q)
         /\ TargetPath(call[p]) = TargetPath(call[q])) => FALSE


\* C26: the attribute writes of upload_blob are covered by the lock scope
\* of its content write: when the concurrent uploads of one blob name have
\* all finished, the meta_data on the blob is that of the upload whose
\* payload is stored under the name.
C26_MetaDataBelongsToStoredContent ==
    (/\ \A p \in Procs : pc[p] = "returned" /\ call[p].op = "upload_blob"
     /\ isfile(fs, _get_file_path(C, A)))
        => LET node == inodes[fs[Resolve(_get_file_path(C, A))].ino] IN
           \A p \in Procs \cup {"p0"} :
               node.data = Payload(p)
                   => node.attrs = SetAttrs(NoAttrs, MetaOf(p),
                                            magic_from_file(Payload(p)))


(***************************************************************************)
(* delete_container against concurrent uploads                             *)
(***************************************************************************)
\* Concurrent callers that upload blob "a" into container "c" and delete
\* the container.
NextRace ==
    \E p \in Procs :
        \/ StartUpload(p, C, A)
        \/ StartDeleteContainer(p, C)
        \/ Step(p)
        \/ DeleteRmtree(p)
        \/ DeleteContainerReturn(p)

SpecRace == Init /\ [][NextRace]_vars

\* C28: delete_container never destroys a committed blob: at the moment
\* the container's directory is removed it holds no blob, so no upload
\* whose rename has completed loses its blob.
C28_DeleteContainerDestroysNoBlob ==
    [][(isdir(fs, Join(base_path, C)) /\ ~Exists(fs', Join(base_path, C)))
          => ~isfile(fs, _get_file_path(C, A))]_vars


(***************************************************************************)
(* Progress after a failed or killed lock holder                           *)
(***************************************************************************)
\* the statements of a call that run to its end when nothing fails
LiveStep(p) ==
    \/ Acquire(p)
    \/ Release(p)
    \/ LockExists(p)
    \/ LockRemove(p)
    \/ Finalize(p)
    \/ UploadMkdir(p)
    \/ UploadOpen(p)
    \/ UploadWrite(p)
    \/ UploadClose(p)
    \/ UploadRename(p)
    \/ UploadChmod(p)
    \/ UploadAttrs(p)
    \/ UploadReturn(p)
    \/ DeleteUnlink(p)
    \/ DeleteReturn(p)

\* the call of p1 has failed: its stream raised inside the `with` block,
\* or its process was killed
Failed == pc["p1"] \in {"raised", "killed"}

\* Caller p1 uploads or deletes blob "a"; its stream may fail while it
\* holds the path lock and its process may be killed at any statement.
\* After that caller p2 uploads the same blob name, and nothing goes wrong
\* in p2's call.
NextLive ==
    \/ StartUpload("p1", C, A) /\ pc["p2"] = "idle"
    \/ StartDeleteBlob("p1", C, A) /\ pc["p2"] = "idle"
    \/ StreamError("p1")
    \/ Kill("p1")
    \/ StartUpload("p2", C, A) /\ Failed
    \/ AcquireTimeout("p2")
    \/ \E p \in Procs : LiveStep(p)

\* a running caller goes on to its next statement; the lock object of a
\* failed call is collected with the traceback that refers to it
SpecLive ==
    /\ Init
    /\ [][NextLive]_vars
    /\ WF_vars(LiveStep("p2"))
    /\ WF_vars(Finalize("p1"))

============================================================================
